---------------------------- MODULE Spec2Model ----------------------------
(***************************************************************************)
(* JDDF schemas (jddf-rust, src/schema.rs): the checked conversion of the  *)
(* wire representation (Serde) into the abstract Schema, the transitive    *)
(* reference check, and the conversion back to the wire representation.    *)
(*                                                                         *)
(* Option<T> is a sequence of length 0 (None) or 1 (Some).  A HashMap is a *)
(* function over its key set; a loop over a HashMap runs in every order    *)
(* its iterator may produce, so a conversion yields a SET of results.      *)
(***************************************************************************)
EXTENDS Integers, Sequences, FiniteSets, TLC

\* Bounds of the model: the depth of the deeper wire trees, the length of
\* enum lists, the largest max_depth of a Config and the nesting of the
\* array instances.
MaxDepth == 2
MaxEnumLen == 2
MaxRefDepth == 2
MaxNesting == 3

---------------------------------------------------------------------------
\* Option, Result and HashMap helpers.

None == <<>>
Some(x) == <<x>>
IsSome(o) == Len(o) = 1
Unwrap(o) == o[1]

Ok(v) == [ok |-> TRUE, val |-> v]
Err(e) == [ok |-> FALSE, err |-> e]

\* The `?` operator over every result an expression may produce.
Try(R, F(_)) == UNION { IF r.ok THEN F(r.val) ELSE {r} : r \in R }

EmptyMap == [k \in {} |-> {}]
MapPut(m, k, v) == [x \in (DOMAIN m) \cup {k} |-> IF x = k THEN v ELSE m[x]]
MapOne(k, v) == MapPut(EmptyMap, k, v)
MapTwo(k1, v1, k2, v2) == MapPut(MapOne(k1, v1), k2, v2)
contains_key(m, k) == k \in DOMAIN m

\* Every order in which an iterator may visit the key set S.
Orders(S) ==
    { o \in [1..Cardinality(S) -> S] : \A x \in S : \E i \in DOMAIN o : o[i] = x }

\* `for (name, sub) in map { acc.insert(name, body(name, sub)?) }` along the
\* order ord, where P[name] holds the results body(name, sub) may produce.
RECURSIVE InsertAlong(_, _, _)
InsertAlong(P, ord, acc) ==
    IF ord = <<>> THEN { Ok(acc) }
    ELSE UNION { IF r.ok
                 THEN InsertAlong(P, Tail(ord), MapPut(acc, Head(ord), r.val))
                 ELSE { r } : r \in P[Head(ord)] }

InsertEach(P) == UNION { InsertAlong(P, ord, EmptyMap) : ord \in Orders(DOMAIN P) }

---------------------------------------------------------------------------
\* JddfError (crate::errors), as used by schema.rs.

InvalidForm == [kind |-> "InvalidForm"]
AmbiguousProperty(name) == [kind |-> "AmbiguousProperty", property |-> name]
NoSuchDefinition(name) == [kind |-> "NoSuchDefinition", definition |-> name]

---------------------------------------------------------------------------
\* enum Type and the wire names of its variants.

TypeNames ==
    { "boolean", "float32", "float64", "int8", "uint8", "int16", "uint16",
      "int32", "uint32", "string", "timestamp" }

Type ==
    { "Boolean", "Float32", "Float64", "Int8", "Uint8", "Int16", "Uint16",
      "Int32", "Uint32", "String", "Timestamp" }

\* A match whose uint8 arm yields the variant of int8.
TypeFromNameSharedArm(typ) ==
    CASE typ = "boolean" -> { Ok("Boolean") }
      [] typ = "float32" -> { Ok("Float32") }
      [] typ = "float64" -> { Ok("Float64") }
      [] typ = "int8" -> { Ok("Int8") }
      [] typ = "uint8" -> { Ok("Int8") }
      [] typ = "int16" -> { Ok("Int16") }
      [] typ = "uint16" -> { Ok("Uint16") }
      [] typ = "int32" -> { Ok("Int32") }
      [] typ = "uint32" -> { Ok("Uint32") }
      [] typ = "string" -> { Ok("String") }
      [] typ = "timestamp" -> { Ok("Timestamp") }
      [] OTHER -> { Err(InvalidForm) }

\* match typ.as_ref() { ... _ => bail!(InvalidForm) }
TypeFromName(typ) ==
    CASE typ = "boolean" -> { Ok("Boolean") }
      [] typ = "float32" -> { Ok("Float32") }
      [] typ = "float64" -> { Ok("Float64") }
      [] typ = "int8" -> { Ok("Int8") }
      [] typ = "uint8" -> { Ok("Uint8") }
      [] typ = "int16" -> { Ok("Int16") }
      [] typ = "uint16" -> { Ok("Uint16") }
      [] typ = "int32" -> { Ok("Int32") }
      [] typ = "uint32" -> { Ok("Uint32") }
      [] typ = "string" -> { Ok("String") }
      [] typ = "timestamp" -> { Ok("Timestamp") }
      [] OTHER -> { Err(InvalidForm) }

\* Form::Type(Type::X) => out.typ = Some("x")
TypeToName(t) ==
    CASE t = "Boolean" -> "boolean"
      [] t = "Float32" -> "float32"
      [] t = "Float64" -> "float64"
      [] t = "Int8" -> "int8"
      [] t = "Uint8" -> "uint8"
      [] t = "Int16" -> "int16"
      [] t = "Uint16" -> "uint16"
      [] t = "Int32" -> "int32"
      [] t = "Uint32" -> "uint32"
      [] t = "String" -> "string"
      [] t = "Timestamp" -> "timestamp"

---------------------------------------------------------------------------
\* enum Form.

FormEmpty == [kind |-> "Empty"]
FormRef(def) == [kind |-> "Ref", def |-> def]
FormType(t) == [kind |-> "Type", typ |-> t]
FormEnum(vals) == [kind |-> "Enum", vals |-> vals]
FormElements(s) == [kind |-> "Elements", schema |-> s]
FormProperties(required, optional, has_required, allow_additional) ==
    [kind |-> "Properties", required |-> required, optional |-> optional,
     has_required |-> has_required, allow_additional |-> allow_additional]
FormValues(s) == [kind |-> "Values", schema |-> s]
FormDiscriminator(tag, mapping) ==
    [kind |-> "Discriminator", tag |-> tag, mapping |-> mapping]

\* struct Schema.
Schema(defs, form, extra) == [defs |-> defs, form |-> form, extra |-> extra]

\* struct Serde, with Default::default().
SerdeDefault ==
    [defs |-> None, additional_props |-> None, rxf |-> None, typ |-> None,
     enm |-> None, elems |-> None, props |-> None, opt_props |-> None,
     values |-> None, discriminator |-> None, extra |-> EmptyMap]

\* struct SerdeDiscriminator.
SerdeDiscriminator(tag, mapping) == [tag |-> tag, mapping |-> mapping]

---------------------------------------------------------------------------
\* Schema::_from_serde: the build phase.

unwrap_or_default(o) == IF IsSome(o) THEN Unwrap(o) ELSE EmptyMap

RECURSIVE EnumValues(_, _)

\* EnumValues without its `values.contains(&val)` check.
EnumValuesUnchecked(enm, values) ==
    IF enm = <<>> THEN { Ok(values) }
    ELSE EnumValues(Tail(enm), values \cup {Head(enm)})

\* for val in enm { if values.contains(&val) { bail } else { insert } }
EnumValues(enm, values) ==
    IF enm = <<>> THEN { Ok(values) }
    ELSE IF Head(enm) \in values THEN { Err(InvalidForm) }
    ELSE EnumValues(Tail(enm), values \cup {Head(enm)})

RECURSIVE _from_serde(_, _)
RECURSIVE FromDefs(_, _)
RECURSIVE FromElems(_, _)
RECURSIVE FromProps(_, _)
RECURSIVE FromValues(_, _)
RECURSIVE FromDiscriminator(_, _)

\* FromDefs with the definitions of a nested schema ignored, not rejected.
FromDefsLenient(serde_schema, is_root) ==
    IF is_root
    THEN LET d == unwrap_or_default(serde_schema.defs)
         IN Try(InsertEach([name \in DOMAIN d |-> _from_serde(d[name], FALSE)]),
                LAMBDA defs : { Ok(Some(defs)) })
    ELSE { Ok(None) }

\* let defs = if is_root { ... } else { ... };
FromDefs(serde_schema, is_root) ==
    IF is_root
    THEN LET d == unwrap_or_default(serde_schema.defs)
         IN Try(InsertEach([name \in DOMAIN d |-> _from_serde(d[name], FALSE)]),
                LAMBDA defs : { Ok(Some(defs)) })
    ELSE IF IsSome(serde_schema.defs)
         THEN { Err(InvalidForm) }
         ELSE { Ok(None) }

\* A conversion that looks a ref up, as soon as it is read, in the
\* definitions of the node that holds it.
FromRxfLookedUp(serde_schema, form) ==
    IF IsSome(serde_schema.rxf)
    THEN IF contains_key(unwrap_or_default(serde_schema.defs), Unwrap(serde_schema.rxf))
         THEN { Ok(FormRef(Unwrap(serde_schema.rxf))) }
         ELSE { Err(NoSuchDefinition(Unwrap(serde_schema.rxf))) }
    ELSE { Ok(form) }

\* if let Some(rxf) = serde_schema.rxf { form = Form::Ref(rxf); }
FromRxf(serde_schema, form) ==
    IF IsSome(serde_schema.rxf)
    THEN { Ok(FormRef(Unwrap(serde_schema.rxf))) }
    ELSE { Ok(form) }

\* if let Some(typ) = serde_schema.typ { ... }
FromTyp(serde_schema, form) ==
    IF IsSome(serde_schema.typ)
    THEN IF form # FormEmpty
         THEN { Err(InvalidForm) }
         ELSE Try(TypeFromName(Unwrap(serde_schema.typ)),
                  LAMBDA t : { Ok(FormType(t)) })
    ELSE { Ok(form) }

\* FromEnm without its `form != Form::Empty` check.
FromEnmUnchecked(serde_schema, form) ==
    IF IsSome(serde_schema.enm)
    THEN Try(EnumValues(Unwrap(serde_schema.enm), {}),
             LAMBDA values :
                 IF values = {} THEN { Err(InvalidForm) }
                 ELSE { Ok(FormEnum(values)) })
    ELSE { Ok(form) }

\* if let Some(enm) = serde_schema.enm { ... }
FromEnm(serde_schema, form) ==
    IF IsSome(serde_schema.enm)
    THEN IF form # FormEmpty
         THEN { Err(InvalidForm) }
         ELSE Try(EnumValues(Unwrap(serde_schema.enm), {}),
                  LAMBDA values :
                      IF values = {} THEN { Err(InvalidForm) }
                      ELSE { Ok(FormEnum(values)) })
    ELSE { Ok(form) }

\* if let Some(elements) = serde_schema.elems { ... }
FromElems(serde_schema, form) ==
    IF IsSome(serde_schema.elems)
    THEN IF form # FormEmpty
         THEN { Err(InvalidForm) }
         ELSE Try(_from_serde(Unwrap(serde_schema.elems), FALSE),
                  LAMBDA s : { Ok(FormElements(s)) })
    ELSE { Ok(form) }

\* FromProps without its `required.contains_key(&name)` check.
FromPropsUnchecked(serde_schema, form) ==
    IF IsSome(serde_schema.props) \/ IsSome(serde_schema.opt_props)
    THEN IF form # FormEmpty
         THEN { Err(InvalidForm) }
         ELSE LET allow_additional == serde_schema.additional_props = Some(TRUE)
                  has_required == IsSome(serde_schema.props)
                  props == unwrap_or_default(serde_schema.props)
                  opt_props == unwrap_or_default(serde_schema.opt_props)
              IN Try(InsertEach([name \in DOMAIN props |->
                                    _from_serde(props[name], FALSE)]),
                     LAMBDA required :
                  Try(InsertEach([name \in DOMAIN opt_props |->
                                    _from_serde(opt_props[name], FALSE)]),
                      LAMBDA optional :
                          { Ok(FormProperties(required, optional,
                                              has_required, allow_additional)) }))
    ELSE { Ok(form) }

\* A conversion that takes any additionalProperties value for true.
FromPropsAdditionalPresent(serde_schema, form) ==
    IF IsSome(serde_schema.props) \/ IsSome(serde_schema.opt_props)
    THEN IF form # FormEmpty
         THEN { Err(InvalidForm) }
         ELSE LET allow_additional == IsSome(serde_schema.additional_props)
                  has_required == IsSome(serde_schema.props)
                  props == unwrap_or_default(serde_schema.props)
                  opt_props == unwrap_or_default(serde_schema.opt_props)
              IN Try(InsertEach([name \in DOMAIN props |->
                                    _from_serde(props[name], FALSE)]),
                     LAMBDA required :
                  Try(InsertEach([name \in DOMAIN opt_props |->
                                    IF contains_key(required, name)
                                    THEN { Err(AmbiguousProperty(name)) }
                                    ELSE _from_serde(opt_props[name], FALSE)]),
                      LAMBDA optional :
                          { Ok(FormProperties(required, optional,
                                              has_required, allow_additional)) }))
    ELSE { Ok(form) }

\* A conversion that counts additionalProperties as a keyword of the group.
FromPropsAdditionalGroup(serde_schema, form) ==
    IF \/ IsSome(serde_schema.props)
       \/ IsSome(serde_schema.opt_props)
       \/ IsSome(serde_schema.additional_props)
    THEN IF form # FormEmpty
         THEN { Err(InvalidForm) }
         ELSE LET allow_additional == serde_schema.additional_props = Some(TRUE)
                  has_required == IsSome(serde_schema.props)
                  props == unwrap_or_default(serde_schema.props)
                  opt_props == unwrap_or_default(serde_schema.opt_props)
              IN Try(InsertEach([name \in DOMAIN props |->
                                    _from_serde(props[name], FALSE)]),
                     LAMBDA required :
                  Try(InsertEach([name \in DOMAIN opt_props |->
                                    IF contains_key(required, name)
                                    THEN { Err(AmbiguousProperty(name)) }
                                    ELSE _from_serde(opt_props[name], FALSE)]),
                      LAMBDA optional :
                          { Ok(FormProperties(required, optional,
                                              has_required, allow_additional)) }))
    ELSE { Ok(form) }

\* A conversion that tests for an earlier group after converting the maps.
FromPropsLateFormTest(serde_schema, form) ==
    IF IsSome(serde_schema.props) \/ IsSome(serde_schema.opt_props)
    THEN LET allow_additional == serde_schema.additional_props = Some(TRUE)
             has_required == IsSome(serde_schema.props)
             props == unwrap_or_default(serde_schema.props)
             opt_props == unwrap_or_default(serde_schema.opt_props)
         IN Try(InsertEach([name \in DOMAIN props |->
                               _from_serde(props[name], FALSE)]),
                LAMBDA required :
             Try(InsertEach([name \in DOMAIN opt_props |->
                               IF contains_key(required, name)
                               THEN { Err(AmbiguousProperty(name)) }
                               ELSE _from_serde(opt_props[name], FALSE)]),
                 LAMBDA optional :
                     IF form # FormEmpty
                     THEN { Err(InvalidForm) }
                     ELSE { Ok(FormProperties(required, optional,
                                              has_required, allow_additional)) }))
    ELSE { Ok(form) }

\* if serde_schema.props.is_some() || serde_schema.opt_props.is_some() { ... }
FromProps(serde_schema, form) ==
    IF IsSome(serde_schema.props) \/ IsSome(serde_schema.opt_props)
    THEN IF form # FormEmpty
         THEN { Err(InvalidForm) }
         ELSE LET allow_additional == serde_schema.additional_props = Some(TRUE)
                  has_required == IsSome(serde_schema.props)
                  props == unwrap_or_default(serde_schema.props)
                  opt_props == unwrap_or_default(serde_schema.opt_props)
              IN Try(InsertEach([name \in DOMAIN props |->
                                    _from_serde(props[name], FALSE)]),
                     LAMBDA required :
                  Try(InsertEach([name \in DOMAIN opt_props |->
                                    IF contains_key(required, name)
                                    THEN { Err(AmbiguousProperty(name)) }
                                    ELSE _from_serde(opt_props[name], FALSE)]),
                      LAMBDA optional :
                          { Ok(FormProperties(required, optional,
                                              has_required, allow_additional)) }))
    ELSE { Ok(form) }

\* if let Some(values) = serde_schema.values { ... }
FromValues(serde_schema, form) ==
    IF IsSome(serde_schema.values)
    THEN IF form # FormEmpty
         THEN { Err(InvalidForm) }
         ELSE Try(_from_serde(Unwrap(serde_schema.values), FALSE),
                  LAMBDA s : { Ok(FormValues(s)) })
    ELSE { Ok(form) }

\* MappingEntry with the tag looked up among the required properties only.
MappingEntryRequiredOnly(tag, sub_schema) ==
    IF sub_schema.form.kind = "Properties"
    THEN IF contains_key(sub_schema.form.required, tag)
         THEN { Err(AmbiguousProperty(tag)) }
         ELSE { Ok(sub_schema) }
    ELSE { Err(InvalidForm) }

\* The check of one converted discriminator mapping entry.
MappingEntry(tag, sub_schema) ==
    IF sub_schema.form.kind = "Properties"
    THEN IF contains_key(sub_schema.form.required, tag)
            \/ contains_key(sub_schema.form.optional, tag)
         THEN { Err(AmbiguousProperty(tag)) }
         ELSE { Ok(sub_schema) }
    ELSE { Err(InvalidForm) }

\* if let Some(discriminator) = serde_schema.discriminator { ... }
FromDiscriminator(serde_schema, form) ==
    IF IsSome(serde_schema.discriminator)
    THEN IF form # FormEmpty
         THEN { Err(InvalidForm) }
         ELSE LET discriminator == Unwrap(serde_schema.discriminator)
                  m == discriminator.mapping
              IN Try(InsertEach([name \in DOMAIN m |->
                                    Try(_from_serde(m[name], FALSE),
                                        LAMBDA sub_schema :
                                            MappingEntry(discriminator.tag,
                                                         sub_schema))]),
                     LAMBDA mapping :
                         { Ok(FormDiscriminator(discriminator.tag, mapping)) })
    ELSE { Ok(form) }

_from_serde(serde_schema, is_root) ==
    Try(FromDefs(serde_schema, is_root), LAMBDA defs :
     Try(FromRxf(serde_schema, FormEmpty), LAMBDA f1 :
      Try(FromTyp(serde_schema, f1), LAMBDA f2 :
       Try(FromEnm(serde_schema, f2), LAMBDA f3 :
        Try(FromElems(serde_schema, f3), LAMBDA f4 :
         Try(FromProps(serde_schema, f4), LAMBDA f5 :
          Try(FromValues(serde_schema, f5), LAMBDA f6 :
           Try(FromDiscriminator(serde_schema, f6), LAMBDA form :
               { Ok(Schema(defs, form, serde_schema.extra)) }))))))))

---------------------------------------------------------------------------
\* Schema::check_refs and the reference phase of Schema::from_serde.

\* `for schema in map.values() { body(schema)? }` along the order ord.
RECURSIVE CheckAlong(_, _)
CheckAlong(P, ord) ==
    IF ord = <<>> THEN { Ok(TRUE) }
    ELSE UNION { IF r.ok THEN CheckAlong(P, Tail(ord)) ELSE { r }
                 : r \in P[Head(ord)] }

CheckEach(P) == UNION { CheckAlong(P, ord) : ord \in Orders(DOMAIN P) }

RECURSIVE check_refs(_, _)

\* check_refs without its Form::Values arm.
check_refs_no_values(defs, schema) ==
    LET form == schema.form IN
    CASE form.kind = "Ref" ->
           IF ~contains_key(defs, form.def)
           THEN { Err(NoSuchDefinition(form.def)) }
           ELSE { Ok(TRUE) }
      [] form.kind = "Elements" -> check_refs(defs, form.schema)
      [] form.kind = "Properties" ->
           Try(CheckEach([n \in DOMAIN form.required |->
                             check_refs(defs, form.required[n])]),
               LAMBDA u :
                   CheckEach([n \in DOMAIN form.optional |->
                                 check_refs(defs, form.optional[n])]))
      [] form.kind = "Discriminator" ->
           CheckEach([n \in DOMAIN form.mapping |->
                         check_refs(defs, form.mapping[n])])
      [] OTHER -> { Ok(TRUE) }

check_refs(defs, schema) ==
    LET form == schema.form IN
    CASE form.kind = "Ref" ->
           IF ~contains_key(defs, form.def)
           THEN { Err(NoSuchDefinition(form.def)) }
           ELSE { Ok(TRUE) }
      [] form.kind = "Elements" -> check_refs(defs, form.schema)
      [] form.kind = "Properties" ->
           Try(CheckEach([n \in DOMAIN form.required |->
                             check_refs(defs, form.required[n])]),
               LAMBDA u :
                   CheckEach([n \in DOMAIN form.optional |->
                                 check_refs(defs, form.optional[n])]))
      [] form.kind = "Values" -> check_refs(defs, form.schema)
      [] form.kind = "Discriminator" ->
           CheckEach([n \in DOMAIN form.mapping |->
                         check_refs(defs, form.mapping[n])])
      [] OTHER -> { Ok(TRUE) }

\* The reference check done inline: each definition against the definitions
\* converted before it, along the order ord.
RECURSIVE CheckInline(_, _, _)
CheckInline(defs, ord, i) ==
    IF i > Len(ord) THEN { Ok(TRUE) }
    ELSE Try(check_refs([n \in { ord[j] : j \in 1..(i - 1) } |-> defs[n]],
                        defs[ord[i]]),
             LAMBDA u : CheckInline(defs, ord, i + 1))

CheckRootRefsInline(schema) ==
    LET defs == Unwrap(schema.defs) IN
    Try(UNION { CheckInline(defs, ord, 1) : ord \in Orders(DOMAIN defs) },
        LAMBDA u : Try(check_refs(defs, schema), LAMBDA v : { Ok(schema) }))

\* CheckRootRefs without its pass over the definitions.
CheckRootOnly(schema) ==
    Try(check_refs(Unwrap(schema.defs), schema), LAMBDA u : { Ok(schema) })

\* The two check_refs passes of from_serde over a built root schema.
CheckRootRefs(schema) ==
    LET defs == Unwrap(schema.defs) IN
    Try(check_refs(defs, schema), LAMBDA u :
     Try(CheckEach([n \in DOMAIN defs |-> check_refs(defs, defs[n])]),
         LAMBDA v : { Ok(schema) }))

\* Schema::from_serde.
from_serde(serde_schema) ==
    Try(_from_serde(serde_schema, TRUE), LAMBDA schema : CheckRootRefs(schema))

---------------------------------------------------------------------------
\* Schema::into_serde.  Collecting a HashSet into a Vec yields its members in
\* any order, so the conversion yields a set of possible outputs.

\* Every map over the keys of S that takes at each key one member of S[key].
ChooseEach(S) ==
    { f \in [DOMAIN S -> UNION { S[n] : n \in DOMAIN S }] :
        \A n \in DOMAIN S : f[n] \in S[n] }

RECURSIVE into_serde(_)
RECURSIVE IntoDefs(_, _)
RECURSIVE IntoProperties(_, _, _, _)
RECURSIVE IntoForm(_, _)

\* if let Some(defs) = self.defs { ... out.defs = Some(out_defs); }
IntoDefs(out, defs) ==
    IF IsSome(defs)
    THEN { [out EXCEPT !.defs = Some(out_defs)] :
             out_defs \in ChooseEach([name \in DOMAIN Unwrap(defs) |->
                                         into_serde(Unwrap(defs)[name])]) }
    ELSE { out }

\* An encoding that emits the properties key on has_required alone.
IntoPropertiesHasRequiredOnly(out, required, optional, has_required) ==
    LET withProps ==
            IF has_required
            THEN { [out EXCEPT !.props = Some(m)] :
                     m \in ChooseEach([k \in DOMAIN required |->
                                          into_serde(required[k])]) }
            ELSE { out }
    IN UNION { IF ~has_required \/ DOMAIN optional # {}
               THEN { [o EXCEPT !.opt_props = Some(m)] :
                        m \in ChooseEach([k \in DOMAIN optional |->
                                             into_serde(optional[k])]) }
               ELSE { o } : o \in withProps }

\* An encoding that emits each of the two keys only for a non-empty map.
IntoPropertiesNonEmptyOnly(out, required, optional, has_required) ==
    LET withProps ==
            IF DOMAIN required # {}
            THEN { [out EXCEPT !.props = Some(m)] :
                     m \in ChooseEach([k \in DOMAIN required |->
                                          into_serde(required[k])]) }
            ELSE { out }
    IN UNION { IF DOMAIN optional # {}
               THEN { [o EXCEPT !.opt_props = Some(m)] :
                        m \in ChooseEach([k \in DOMAIN optional |->
                                             into_serde(optional[k])]) }
               ELSE { o } : o \in withProps }

\* Form::Properties { required, optional, has_required, .. } => { ... }
IntoProperties(out, required, optional, has_required) ==
    LET withProps ==
            IF has_required \/ DOMAIN required # {}
            THEN { [out EXCEPT !.props = Some(m)] :
                     m \in ChooseEach([k \in DOMAIN required |->
                                          into_serde(required[k])]) }
            ELSE { out }
    IN UNION { IF ~has_required \/ DOMAIN optional # {}
               THEN { [o EXCEPT !.opt_props = Some(m)] :
                        m \in ChooseEach([k \in DOMAIN optional |->
                                             into_serde(optional[k])]) }
               ELSE { o } : o \in withProps }

\* match *self.form { ... }
IntoForm(out, form) ==
    CASE form.kind = "Empty" -> { out }
      [] form.kind = "Ref" -> { [out EXCEPT !.rxf = Some(form.def)] }
      [] form.kind = "Type" -> { [out EXCEPT !.typ = Some(TypeToName(form.typ))] }
      [] form.kind = "Enum" ->
           { [out EXCEPT !.enm = Some(v)] : v \in Orders(form.vals) }
      [] form.kind = "Elements" ->
           { [out EXCEPT !.elems = Some(s)] : s \in into_serde(form.schema) }
      [] form.kind = "Properties" ->
           IntoProperties(out, form.required, form.optional, form.has_required)
      [] form.kind = "Values" ->
           { [out EXCEPT !.values = Some(s)] : s \in into_serde(form.schema) }
      [] form.kind = "Discriminator" ->
           { [out EXCEPT !.discriminator = Some(SerdeDiscriminator(form.tag, m))] :
               m \in ChooseEach([k \in DOMAIN form.mapping |->
                                    into_serde(form.mapping[k])]) }

\* An encoding that leaves out.extra as Serde::default() made it.
into_serde_without_extra(self) ==
    UNION { IntoForm(o1, self.form) : o1 \in IntoDefs(SerdeDefault, self.defs) }

into_serde(self) ==
    UNION { { [o2 EXCEPT !.extra = self.extra] : o2 \in IntoForm(o1, self.form) }
            : o1 \in IntoDefs(SerdeDefault, self.defs) }

\* Schema::is_root.
is_root(schema) == IsSome(schema.defs)

---------------------------------------------------------------------------
\* The wire roots the conversions are run on.

Names == { "a", "b" }
EnumStrs == { "A", "B" }
EnumLists == UNION { [1..n -> EnumStrs] : n \in 0..MaxEnumLen }
Foo == MapOne("foo", "bar")

\* The wire node with the keywords of x and of y (those of y win).
Merge(x, y) ==
    [f \in DOMAIN SerdeDefault |-> IF y[f] # SerdeDefault[f] THEN y[f] ELSE x[f]]

WithRxf(n) == [SerdeDefault EXCEPT !.rxf = Some(n)]
WithTyp(t) == [SerdeDefault EXCEPT !.typ = Some(t)]
WithEnm(e) == [SerdeDefault EXCEPT !.enm = Some(e)]
WithElems(c) == [SerdeDefault EXCEPT !.elems = Some(c)]
WithProps(m) == [SerdeDefault EXCEPT !.props = Some(m)]
WithOptProps(m) == [SerdeDefault EXCEPT !.opt_props = Some(m)]
WithValues(c) == [SerdeDefault EXCEPT !.values = Some(c)]
WithDiscriminator(tag, m) ==
    [SerdeDefault EXCEPT !.discriminator = Some(SerdeDiscriminator(tag, m))]
WithAdditional(b) == [SerdeDefault EXCEPT !.additional_props = Some(b)]
WithExtra == [SerdeDefault EXCEPT !.extra = Foo]
WithDefs(m) == [SerdeDefault EXCEPT !.defs = Some(m)]

\* One node for each keyword group, without sub-schemas.
GroupNodes ==
    { WithRxf("a"), WithTyp("boolean"), WithEnm(<<"A">>), WithElems(SerdeDefault),
      WithProps(EmptyMap), WithOptProps(EmptyMap), WithValues(SerdeDefault),
      WithDiscriminator("a", EmptyMap) }

\* Nodes without sub-schemas of their own (beyond an empty one).
Leaves ==
    { SerdeDefault }
    \cup { WithRxf(n) : n \in Names }
    \cup { WithTyp(t) : t \in TypeNames \cup { "foo" } }
    \cup { WithEnm(e) : e \in EnumLists }
    \cup { Merge(x, y) : x \in GroupNodes, y \in GroupNodes }
    \cup { Merge(x, WithAdditional(b)) :
             x \in GroupNodes \cup { SerdeDefault, Merge(WithProps(EmptyMap),
                                                         WithOptProps(EmptyMap)) },
             b \in BOOLEAN }
    \cup { Merge(x, WithExtra) :
             x \in { SerdeDefault, WithRxf("a"), WithTyp("int8"), WithEnm(<<"B", "A">>),
                     WithProps(EmptyMap), WithTyp("foo") } }
    \cup { Merge(x, WithDefs(EmptyMap)) : x \in { SerdeDefault, WithTyp("boolean") } }

\* The nodes that hold c as their one sub-schema.
Wrap(c) ==
    { WithElems(c), WithValues(c), WithProps(MapOne("a", c)),
      WithOptProps(MapOne("a", c)) }
    \cup { WithDiscriminator(tag, MapOne("a", c)) : tag \in Names }

\* Sub-schemas of the nodes that hold two of them.
Kids ==
    { SerdeDefault, WithRxf("a"), WithRxf("b"), WithTyp("boolean"), WithEnm(<<>>),
      WithProps(EmptyMap), Merge(WithTyp("boolean"), WithEnm(<<"A">>)),
      WithTyp("foo") }

Branches ==
    { SerdeDefault, WithRxf("a"), WithProps(EmptyMap), WithOptProps(EmptyMap),
      WithProps(MapOne("a", SerdeDefault)), WithOptProps(MapOne("b", SerdeDefault)),
      Merge(WithProps(MapOne("b", WithRxf("b"))), WithAdditional(TRUE)) }

\* Nodes with two sub-schemas, and nodes with a sub-schema and a second keyword.
Pairs ==
    { Merge(WithProps(MapOne("a", c1)), WithOptProps(MapOne(n, c2))) :
        c1 \in Kids, c2 \in Kids, n \in Names }
    \cup { WithProps(MapTwo("a", c1, "b", c2)) : c1 \in Kids, c2 \in Kids }
    \cup { WithDiscriminator(tag, MapTwo("a", c1, "b", c2)) :
             c1 \in Branches, c2 \in Branches, tag \in Names }
    \cup { Merge(w, y) :
             w \in UNION { Wrap(c) : c \in { WithTyp("string"), WithEnm(<<>>) } },
             y \in { WithExtra, WithAdditional(TRUE), WithDefs(EmptyMap),
                     WithRxf("b"), WithValues(SerdeDefault) } }

\* The leaves of the deeper trees.
CoreLeaves ==
    { SerdeDefault, WithRxf("a"), WithRxf("b"), WithTyp("boolean"), WithTyp("foo"),
      WithEnm(<<"A">>), WithEnm(<<>>), WithProps(EmptyMap), WithOptProps(EmptyMap),
      Merge(WithTyp("boolean"), WithEnm(<<"A">>)), WithDefs(EmptyMap), WithExtra }

\* Trees of depth at most d over the core leaves.
RECURSIVE Deep(_)
Deep(d) ==
    IF d = 0 THEN CoreLeaves
    ELSE LET below == Deep(d - 1) IN below \cup UNION { Wrap(c) : c \in below }

Nodes == Leaves \cup UNION { Wrap(c) : c \in Leaves } \cup Pairs \cup Deep(MaxDepth)

\* Definitions that refer to each other, to themselves, or to nothing.
DefKids ==
    { SerdeDefault, WithRxf("a"), WithRxf("b"), WithElems(WithRxf("a")),
      WithValues(WithRxf("b")), WithProps(MapOne("a", WithRxf("b"))),
      WithTyp("boolean"), WithEnm(<<"A", "A">>) }

RootForms ==
    { SerdeDefault, WithRxf("a"), WithRxf("b"), WithElems(WithRxf("b")),
      WithDiscriminator("b", MapOne("a", WithRxf("a"))),
      Merge(WithRxf("a"), WithAdditional(TRUE)) }

\* Nodes that break a rule inside a keyword group that is not their first, or
\* inside a definition as well as in the root form.
Shared ==
    Merge(WithProps(MapOne("a", SerdeDefault)), WithOptProps(MapOne("a", SerdeDefault)))

TagClash == WithDiscriminator("b", MapOne("a", WithProps(MapOne("b", SerdeDefault))))

SecondBad ==
    { Merge(x, y) :
        x \in { WithRxf("a"), WithTyp("boolean"), WithEnm(<<"A">>), WithElems(SerdeDefault) },
        y \in { Shared, TagClash, WithEnm(<<>>) } }
    \cup { Merge(Shared, WithValues(SerdeDefault)), Merge(Shared, TagClash),
           Merge(WithProps(EmptyMap), TagClash),
           Merge(WithElems(Shared), WithValues(SerdeDefault)),
           Merge(WithValues(WithTyp("foo")), TagClash) }

OrderRoots ==
    SecondBad
    \cup UNION { Wrap(c) : c \in SecondBad }
    \cup { Merge(r, WithDefs(MapOne("a", c))) :
             r \in SecondBad \cup { Shared, WithEnm(<<>>) },
             c \in { Shared, WithEnm(<<>>), WithTyp("boolean"), WithDefs(EmptyMap) } }

WireRoots ==
    Nodes
    \cup OrderRoots
    \cup { Merge(r, WithDefs(MapOne("a", c))) :
             r \in RootForms, c \in Deep(MaxDepth - 1) \cup Pairs }
    \cup { Merge(r, WithDefs(MapTwo("a", c1, "b", c2))) :
             r \in RootForms, c1 \in DefKids, c2 \in DefKids }
    \cup { Merge(r, WithDefs(EmptyMap)) : r \in Leaves }

---------------------------------------------------------------------------
\* The validation engine (section 4.2 of the specification): instances.

JNull == [t |-> "null"]
JBool(b) == [t |-> "bool", bool |-> b]
\* A JSON number: its integer part, and whether it has a fractional part.
JNum(i, frac) == [t |-> "num", int |-> i, frac |-> frac]
JStr(s) == [t |-> "str", str |-> s]
JArr(seq) == [t |-> "arr", items |-> seq]
JObj(m) == [t |-> "obj", members |-> m]

\* The strings that parse as RFC 3339 timestamps.
Timestamps == { "1985-04-12T23:20:50Z" }

\* The range of an integer type; values of the model stay below 2^31.
InRange(typ, i) ==
    CASE typ = "Int8" -> -128 <= i /\ i <= 127
      [] typ = "Uint8" -> 0 <= i /\ i <= 255
      [] typ = "Int16" -> -32768 <= i /\ i <= 32767
      [] typ = "Uint16" -> 0 <= i /\ i <= 65535
      [] typ = "Int32" -> TRUE
      [] typ = "Uint32" -> 0 <= i

\* Type: the instance's kind matches the primitive type.
TypeMatches(typ, inst) ==
    CASE typ = "Boolean" -> inst.t = "bool"
      [] typ \in { "Float32", "Float64" } -> inst.t = "num"
      [] typ = "String" -> inst.t = "str"
      [] typ = "Timestamp" -> inst.t = "str" /\ inst.str \in Timestamps
      [] OTHER -> inst.t = "num" /\ ~inst.frac /\ InRange(typ, inst.int)

\* Config.
Config(max_depth, max_errors) == [max_depth |-> max_depth, max_errors |-> max_errors]

\* One pending call of the recursive evaluator: the sub-schema, the
\* instance, the two path accumulators and the Ref expansions on its path.
Call(schema, instance, instance_path, schema_path, depth) ==
    [schema |-> schema, instance |-> instance, instance_path |-> instance_path,
     schema_path |-> schema_path, depth |-> depth]

ValidationError(instance_path, schema_path) ==
    [instance_path |-> instance_path, schema_path |-> schema_path]

\* Some sequence of the members of S (one iteration order, fixed per set).
RECURSIVE SeqOf(_)
SeqOf(S) == IF S = {} THEN <<>> ELSE LET x == CHOOSE y \in S : TRUE
                                     IN << x >> \o SeqOf(S \ { x })

\* The errors the evaluator reports at the node of call c itself.
OwnErrors(c) ==
    LET f == c.schema.form
        i == c.instance
        At(tokens) == << ValidationError(c.instance_path, c.schema_path \o tokens) >>
    IN CASE f.kind = "Type" ->
              IF TypeMatches(f.typ, i) THEN <<>> ELSE At(<< "type" >>)
         [] f.kind = "Enum" ->
              IF i.t = "str" /\ i.str \in f.vals THEN <<>> ELSE At(<< "enum" >>)
         [] f.kind = "Elements" ->
              IF i.t = "arr" THEN <<>> ELSE At(<< "elements" >>)
         [] f.kind = "Values" ->
              IF i.t = "obj" THEN <<>> ELSE At(<< "values" >>)
         [] f.kind = "Properties" ->
              IF i.t # "obj"
              THEN At(IF f.has_required THEN << "properties" >>
                      ELSE << "optionalProperties" >>)
              ELSE LET missing == SeqOf(DOMAIN f.required \ DOMAIN i.members)
                       extra == SeqOf(IF f.allow_additional THEN {}
                                      ELSE DOMAIN i.members \ (DOMAIN f.required
                                                         \cup DOMAIN f.optional))
                   IN [k \in DOMAIN missing |->
                          ValidationError(c.instance_path,
                              c.schema_path \o << "properties", missing[k] >>)]
                      \o [k \in DOMAIN extra |->
                             ValidationError(c.instance_path \o << extra[k] >>,
                                             c.schema_path)]
         [] f.kind = "Discriminator" ->
              IF i.t # "obj" \/ ~contains_key(i.members, f.tag) THEN At(<< "discriminator" >>)
              ELSE IF i.members[f.tag].t # "str" THEN At(<< "discriminator" >>)
              ELSE IF ~contains_key(f.mapping, i.members[f.tag].str)
                   THEN At(<< "discriminator", "mapping" >>)
                   ELSE <<>>
         [] OTHER -> <<>>

\* The calls the evaluator makes from call c, in order.
SubCalls(root, c) ==
    LET f == c.schema.form
        i == c.instance
    IN CASE f.kind = "Ref" ->
              << Call(Unwrap(root.defs)[f.def], i, c.instance_path, c.schema_path,
                      c.depth + 1) >>
         [] f.kind = "Elements" /\ i.t = "arr" ->
              [k \in DOMAIN i.items |->
                  Call(f.schema, i.items[k], c.instance_path \o << k >>,
                       c.schema_path \o << "elements" >>, c.depth)]
         [] f.kind = "Values" /\ i.t = "obj" ->
              LET keys == SeqOf(DOMAIN i.members)
              IN [k \in DOMAIN keys |->
                     Call(f.schema, i.members[keys[k]], c.instance_path \o << keys[k] >>,
                          c.schema_path \o << "values" >>, c.depth)]
         [] f.kind = "Properties" /\ i.t = "obj" ->
              LET req == SeqOf(DOMAIN f.required \cap DOMAIN i.members)
                  opt == SeqOf(DOMAIN f.optional \cap DOMAIN i.members)
              IN [k \in DOMAIN req |->
                     Call(f.required[req[k]], i.members[req[k]],
                          c.instance_path \o << req[k] >>,
                          c.schema_path \o << "properties", req[k] >>, c.depth)]
                 \o [k \in DOMAIN opt |->
                        Call(f.optional[opt[k]], i.members[opt[k]],
                             c.instance_path \o << opt[k] >>,
                             c.schema_path \o << "optionalProperties", opt[k] >>,
                             c.depth)]
         [] f.kind = "Discriminator" /\ OwnErrors(c) = <<>> ->
              << Call(f.mapping[i.members[f.tag].str], i, c.instance_path,
                      c.schema_path \o << "discriminator", "mapping", i.members[f.tag].str >>,
                      c.depth) >>
         [] OTHER -> <<>>

\* Following the Ref of call c would exceed config.max_depth.
DepthOverflowLax(config, c) ==
    c.schema.form.kind = "Ref" /\ c.depth + 1 > config.max_depth + 1

DepthOverflow(config, c) ==
    c.schema.form.kind = "Ref" /\ c.depth + 1 > config.max_depth

\* The first n members of a sequence.
Take(seq, n) == [k \in 1..(IF Len(seq) < n THEN Len(seq) ELSE n) |-> seq[k]]

---------------------------------------------------------------------------
\* The schemas, instances and configurations validation is run on.

ValidationRoots ==
    { Merge(WithRxf("a"), WithDefs(MapOne("a", c))) :
        c \in { WithRxf("a"), WithElems(WithRxf("a")), WithValues(WithRxf("a")),
                WithOptProps(MapOne("a", WithRxf("a"))), WithTyp("uint8") } }
    \cup { Merge(WithRxf("a"),
                 WithDefs(MapTwo("a", WithRxf("b"), "b", WithElems(WithRxf("a"))))),
           Merge(WithRxf("b"),
                 WithDefs(MapTwo("a", WithRxf("b"), "b", WithRxf("a")))),
           WithElems(WithTyp("boolean")), WithTyp("timestamp"), WithTyp("int8"),
           WithEnm(<< "A", "B" >>), SerdeDefault,
           WithDiscriminator("a", MapOne("A", WithProps(EmptyMap))),
           Merge(WithProps(MapOne("a", WithTyp("string"))),
                 WithOptProps(MapOne("b", WithElems(SerdeDefault)))) }

\* The well-formed root schemas: what from_serde returns for them.
ValidationSchemas ==
    { r.val : r \in { x \in UNION { from_serde(w) : w \in ValidationRoots } : x.ok } }

\* The array nested n deep.
RECURSIVE Nested(_)
Nested(n) == IF n = 0 THEN JArr(<<>>) ELSE JArr(<< Nested(n - 1) >>)

Instances ==
    { Nested(n) : n \in 0..MaxNesting }
    \cup { JNull, JBool(TRUE), JNum(1, FALSE), JNum(300, FALSE), JNum(-129, FALSE),
           JNum(1, TRUE), JStr("A"), JStr("1985-04-12T23:20:50Z"),
           JArr(<< JBool(TRUE), JBool(FALSE), JNum(1, FALSE) >>),
           JObj(EmptyMap), JObj(MapOne("a", JStr("A"))), JObj(MapOne("a", JStr("B"))),
           JObj(MapOne("a", JObj(MapOne("a", JObj(EmptyMap))))),
           JObj(MapTwo("a", JStr("x"), "b", JArr(<< JNull >>))),
           JObj(MapOne("b", JNum(1, FALSE))) }

Configs == { Config(d, e) : d \in 0..MaxRefDepth, e \in { 1, 2, 100 } }

---------------------------------------------------------------------------
\* The conversions and the validation as state machines.

VARIABLES
    pc,      \* where the run of the conversions stands
    wire,    \* the Serde handed to Schema::from_serde
    built,   \* the result of the build phase, _from_serde(wire, true)
    result,  \* the result of Schema::from_serde(wire)
    out,     \* Some(into_serde(schema)) once the schema is converted back
    again,   \* Some(from_serde(out)) once the output is converted again
    vpc,     \* where the validation run stands
    vschema, \* the root schema validated against
    vconfig, \* the Config of the run
    stack,   \* the pending calls of the evaluator, the next one first
    errors   \* the validation errors collected so far

cvars == << pc, wire, built, result, out, again >>
vvars == << vpc, vschema, vconfig, stack, errors >>
vars == << pc, wire, built, result, out, again, vpc, vschema, vconfig, stack, errors >>

\* No validation is running.
IdleValidation ==
    /\ vpc = "idle"
    /\ vschema = None
    /\ vconfig = None
    /\ stack = <<>>
    /\ errors = <<>>

Init ==
    /\ pc = "start"
    /\ wire \in WireRoots
    /\ built = None
    /\ result = None
    /\ out = None
    /\ again = None
    /\ IdleValidation

\* let schema = Self::_from_serde(serde_schema, true)?;
Build ==
    /\ pc = "start"
    /\ \E r \in _from_serde(wire, TRUE) :
         /\ built' = Some(r)
         /\ IF r.ok
            THEN pc' = "built" /\ UNCHANGED result
            ELSE pc' = "failed" /\ result' = Some(r)
    /\ UNCHANGED << wire, out, again >>
    /\ UNCHANGED vvars

\* Self::check_refs(...)?; for sub_schema in defs.values() { ... }; Ok(schema)
CheckRefs ==
    /\ pc = "built"
    /\ \E r \in CheckRootRefs(Unwrap(built).val) :
         /\ result' = Some(r)
         /\ pc' = IF r.ok THEN "ok" ELSE "failed"
    /\ UNCHANGED << wire, built, out, again >>
    /\ UNCHANGED vvars

\* schema.into_serde()
IntoSerde ==
    /\ pc = "ok"
    /\ \E o \in into_serde(Unwrap(result).val) : out' = Some(o)
    /\ pc' = "encoded"
    /\ UNCHANGED << wire, built, result, again >>
    /\ UNCHANGED vvars

\* Schema::from_serde(schema.into_serde())
Reconvert ==
    /\ pc = "encoded"
    /\ \E r \in from_serde(Unwrap(out)) : again' = Some(r)
    /\ pc' = "reconverted"
    /\ UNCHANGED << wire, built, result, out >>
    /\ UNCHANGED vvars

Next == Build \/ CheckRefs \/ IntoSerde \/ Reconvert

Spec == Init /\ [][Next]_vars

\* Schemas put together with Schema::from_parts, which checks nothing: every
\* Properties form over disjoint property names, at the root and nested.
from_parts(defs, form, extra) == Schema(defs, form, extra)

PartKids ==
    { from_parts(None, FormEmpty, EmptyMap),
      from_parts(None, FormType("Boolean"), EmptyMap) }

PartForms ==
    UNION { UNION { { FormProperties(required, optional, has_required, allow_additional) :
                        required \in [D1 -> PartKids], optional \in [D2 -> PartKids],
                        has_required \in BOOLEAN, allow_additional \in BOOLEAN } :
                    D2 \in SUBSET (Names \ D1) } :
            D1 \in SUBSET Names }

PartSchemas ==
    { from_parts(Some(EmptyMap), f, EmptyMap) : f \in PartForms }
    \cup { from_parts(Some(EmptyMap), FormElements(from_parts(None, f, Foo)), EmptyMap) :
             f \in PartForms }

InitParts ==
    /\ pc = "start"
    /\ wire = SerdeDefault
    /\ built = None
    /\ result = None
    /\ out = None
    /\ again = None
    /\ IdleValidation

\* Schema::from_parts(defs, form, extra)
FromParts ==
    /\ pc = "start"
    /\ \E s \in PartSchemas : result' = Some(Ok(s))
    /\ pc' = "ok"
    /\ UNCHANGED << wire, built, out, again >>
    /\ UNCHANGED vvars

NextParts == FromParts \/ IntoSerde \/ Reconvert

SpecParts == InitParts /\ [][NextParts]_vars

\* validate(root_schema, instance, config): the root-level call starts with
\* empty instance and schema paths.
InitValidate ==
    /\ pc = "idle"
    /\ wire = None
    /\ built = None
    /\ result = None
    /\ out = None
    /\ again = None
    /\ vpc = "running"
    /\ vschema \in ValidationSchemas
    /\ vconfig \in Configs
    /\ \E i \in Instances : stack = << Call(vschema, i, <<>>, <<>>, 0) >>
    /\ errors = <<>>

\* The evaluator takes its next call: it aborts the run when following a Ref
\* would exceed max_depth, and otherwise collects the errors of the node and
\* descends, or stops descending once max_errors errors are collected.
Eval ==
    /\ vpc = "running"
    /\ stack # <<>>
    /\ LET c == Head(stack)
       IN IF DepthOverflow(vconfig, c)
          THEN /\ vpc' = "aborted"
               /\ stack' = <<>>
               /\ errors' = <<>>
          ELSE LET all == errors \o OwnErrors(c)
               IN IF Len(all) >= vconfig.max_errors
                  THEN /\ errors' = Take(all, vconfig.max_errors)
                       /\ stack' = <<>>
                       /\ vpc' = "running"
                  ELSE /\ errors' = all
                       /\ stack' = SubCalls(vschema, c) \o Tail(stack)
                       /\ vpc' = "running"
    /\ UNCHANGED << vschema, vconfig >>
    /\ UNCHANGED cvars

\* No call is left: validate returns the list of errors.
Return ==
    /\ vpc = "running"
    /\ stack = <<>>
    /\ vpc' = "returned"
    /\ UNCHANGED << vschema, vconfig, stack, errors >>
    /\ UNCHANGED cvars

NextValidate == Eval \/ Return

\* validate is a synchronous computation: it takes its next step.
SpecValidate == InitValidate /\ [][NextValidate]_vars /\ WF_vars(NextValidate)

---------------------------------------------------------------------------
\* What the claims say of a wire tree, read off the tree itself.

\* The keyword groups present on a wire node.
GroupsOf(n) ==
    (IF IsSome(n.rxf) THEN { "Ref" } ELSE {})
    \cup (IF IsSome(n.typ) THEN { "Type" } ELSE {})
    \cup (IF IsSome(n.enm) THEN { "Enum" } ELSE {})
    \cup (IF IsSome(n.elems) THEN { "Elements" } ELSE {})
    \cup (IF IsSome(n.props) \/ IsSome(n.opt_props) THEN { "Properties" } ELSE {})
    \cup (IF IsSome(n.values) THEN { "Values" } ELSE {})
    \cup (IF IsSome(n.discriminator) THEN { "Discriminator" } ELSE {})

Range(f) == { f[x] : x \in DOMAIN f }

\* The sub-schemas of a wire node other than its definitions.
SubNodes(n) ==
    Range(n.elems) \cup Range(n.values)
    \cup Range(unwrap_or_default(n.props))
    \cup Range(unwrap_or_default(n.opt_props))
    \cup (IF IsSome(n.discriminator) THEN Range(Unwrap(n.discriminator).mapping)
          ELSE {})

\* Every node of the wire tree below and including n, definitions apart.
RECURSIVE TreeNodes(_)
TreeNodes(n) == { n } \cup UNION { TreeNodes(c) : c \in SubNodes(n) }

\* Every nested node of a wire root: its definitions and all sub-schemas.
NestedNodes(w) ==
    UNION { TreeNodes(c) : c \in SubNodes(w) \cup Range(unwrap_or_default(w.defs)) }

AllNodes(w) == { w } \cup NestedNodes(w)

\* A wire node with more than one keyword group.
TwoGroups(n) == Cardinality(GroupsOf(n)) > 1

\* The names a wire node declares both as required and as optional property.
SharedNames(n) ==
    DOMAIN unwrap_or_default(n.props) \cap DOMAIN unwrap_or_default(n.opt_props)

\* The mapping entries of a wire discriminator that are not in Properties form.
NonPropertiesBranches(n) ==
    IF IsSome(n.discriminator)
    THEN { c \in Range(Unwrap(n.discriminator).mapping) : GroupsOf(c) # { "Properties" } }
    ELSE {}

\* The mapping entries of a wire discriminator that declare its tag.
TagBranches(n) ==
    IF IsSome(n.discriminator)
    THEN { c \in Range(Unwrap(n.discriminator).mapping) :
             Unwrap(n.discriminator).tag \in
                 DOMAIN unwrap_or_default(c.props) \cup DOMAIN unwrap_or_default(c.opt_props) }
    ELSE {}

\* An enum list that is empty or holds a string twice.
BadEnum(n) ==
    /\ IsSome(n.enm)
    /\ LET e == Unwrap(n.enm)
       IN e = <<>> \/ \E i, j \in DOMAIN e : i # j /\ e[i] = e[j]

BadType(n) == IsSome(n.typ) /\ Unwrap(n.typ) \notin TypeNames

\* The node breaks a rule whose error kind is InvalidForm.
InvalidFormAt(n) ==
    TwoGroups(n) \/ BadType(n) \/ BadEnum(n) \/ NonPropertiesBranches(n) # {}

\* The AmbiguousProperty errors the rules assign to a node.
AmbiguousAt(n) ==
    { AmbiguousProperty(name) : name \in SharedNames(n) }
    \cup (IF TagBranches(n) # {}
          THEN { AmbiguousProperty(Unwrap(n.discriminator).tag) } ELSE {})

HasInvalidForm(w) ==
    \/ \E n \in AllNodes(w) : InvalidFormAt(n)
    \/ \E n \in NestedNodes(w) : IsSome(n.defs)

AmbiguousErrors(w) == UNION { AmbiguousAt(n) : n \in AllNodes(w) }

\* The ref names of a wire root that are no key of its definitions.
DanglingRefs(w) ==
    { Unwrap(n.rxf) : n \in { m \in AllNodes(w) : IsSome(m.rxf) } }
        \ DOMAIN unwrap_or_default(w.defs)

\* The form kind of a wire node with at most one keyword group.
KindOf(n) == IF GroupsOf(n) = {} THEN "Empty" ELSE CHOOSE g \in GroupsOf(n) : TRUE

\* from_serde has returned.
Returned == pc \in { "ok", "failed", "encoded", "reconverted" }
Accepted == Returned /\ Unwrap(result).ok
Rejected == Returned /\ ~Unwrap(result).ok
Error == Unwrap(result).err
Root == Unwrap(result).val

---------------------------------------------------------------------------
\* What the claims say of a built Schema.

\* The sub-schemas of a Schema node other than its definitions.
SubSchemas(s) ==
    CASE s.form.kind \in { "Elements", "Values" } -> { s.form.schema }
      [] s.form.kind = "Properties" -> Range(s.form.required) \cup Range(s.form.optional)
      [] s.form.kind = "Discriminator" -> Range(s.form.mapping)
      [] OTHER -> {}

RECURSIVE SchemaTree(_)
SchemaTree(s) == { s } \cup UNION { SchemaTree(c) : c \in SubSchemas(s) }

\* Every nested node of a root Schema: its definitions and all sub-schemas.
NestedSchemas(s) ==
    UNION { SchemaTree(c) : c \in SubSchemas(s) \cup Range(unwrap_or_default(s.defs)) }

AllSchemas(s) == { s } \cup NestedSchemas(s)

\* The Schema node has the form of the one keyword group of the wire node,
\* and so on below.
RECURSIVE FormMatches(_, _)
FormMatches(n, s) ==
    /\ ~TwoGroups(n)
    /\ s.form.kind = KindOf(n)
    /\ CASE s.form.kind = "Elements" -> FormMatches(Unwrap(n.elems), s.form.schema)
         [] s.form.kind = "Values" -> FormMatches(Unwrap(n.values), s.form.schema)
         [] s.form.kind = "Properties" ->
              LET props == unwrap_or_default(n.props)
                  opt_props == unwrap_or_default(n.opt_props)
              IN /\ DOMAIN s.form.required = DOMAIN props
                 /\ DOMAIN s.form.optional = DOMAIN opt_props
                 /\ \A k \in DOMAIN props : FormMatches(props[k], s.form.required[k])
                 /\ \A k \in DOMAIN opt_props :
                      FormMatches(opt_props[k], s.form.optional[k])
         [] s.form.kind = "Discriminator" ->
              LET m == Unwrap(n.discriminator).mapping
              IN /\ DOMAIN s.form.mapping = DOMAIN m
                 /\ \A k \in DOMAIN m : FormMatches(m[k], s.form.mapping[k])
         [] OTHER -> TRUE
    /\ IsSome(s.defs) =>
         LET d == unwrap_or_default(n.defs)
         IN /\ DOMAIN Unwrap(s.defs) = DOMAIN d
            /\ \A k \in DOMAIN d : FormMatches(d[k], Unwrap(s.defs)[k])

---------------------------------------------------------------------------
\* C1 (as amended): a wire tree with a node of more than one keyword group is
\* rejected, with InvalidForm or with the AmbiguousProperty of a shared
\* property name or tag collision of the tree; every node of an accepted
\* tree has the form of its single keyword group, Empty when it has none.
C1_OneFormPerNode ==
    /\ (Returned /\ \E n \in AllNodes(wire) : TwoGroups(n)) =>
         (Rejected /\ Error \in { InvalidForm } \cup AmbiguousErrors(wire))
    /\ Accepted => FormMatches(wire, Root)

\* C1 as stated: a node of more than one keyword group always yields InvalidForm.
C1_AlwaysInvalidForm ==
    (Returned /\ \E n \in AllNodes(wire) : TwoGroups(n)) =>
        (Rejected /\ Error = InvalidForm)

\* A nested node alone has two groups, and the tree is rejected as InvalidForm.
C1_Witness ==
    /\ pc = "failed"
    /\ ~TwoGroups(wire)
    /\ \E n \in NestedNodes(wire) : TwoGroups(n)
    /\ AmbiguousErrors(wire) = {}
    /\ Error = InvalidForm

\* C2: every Ref name of an accepted schema, at any depth of the root's form
\* and of every definition, is a key of the root's definitions; a tree that
\* builds and holds a ref to a missing definition is rejected with
\* NoSuchDefinition naming a missing definition.
C2_RefsResolve ==
    /\ Accepted =>
         \A s \in AllSchemas(Root) :
             s.form.kind = "Ref" => contains_key(Unwrap(Root.defs), s.form.def)
    /\ (Returned /\ Unwrap(built).ok /\ DanglingRefs(wire) # {}) =>
         (Rejected /\ \E n \in DanglingRefs(wire) : Error = NoSuchDefinition(n))

\* A ref below the root of a definition is dangling, none in the root's form.
C2_Witness ==
    /\ pc = "failed"
    /\ Unwrap(built).ok
    /\ \A n \in TreeNodes(wire) : ~IsSome(n.rxf)
    /\ \E d \in Range(unwrap_or_default(wire.defs)) :
         /\ ~IsSome(d.rxf)
         /\ \E n \in TreeNodes(d) : IsSome(n.rxf) /\ Unwrap(n.rxf) \in DanglingRefs(wire)
    /\ Error.kind = "NoSuchDefinition"

\* Some definition of the wire root holds a ref.
RefersFromDefinition(w) ==
    \E d \in Range(unwrap_or_default(w.defs)) : \E n \in TreeNodes(d) : IsSome(n.rxf)

\* C3: a wire root whose definitions refer to each other, to themselves or
\* to definitions converted later is accepted when every referenced name is
\* a key of its definitions and no node breaks a construction rule, in
\* whatever order the definitions are iterated.
C3_CyclesAccepted ==
    (/\ Returned
     /\ RefersFromDefinition(wire)
     /\ DanglingRefs(wire) = {}
     /\ ~HasInvalidForm(wire)
     /\ AmbiguousErrors(wire) = {}) => Accepted

\* Definitions a and b refer to each other and the root is accepted.
C3_Witness ==
    /\ pc = "ok"
    /\ IsSome(wire.defs)
    /\ DOMAIN Unwrap(wire.defs) = { "a", "b" }
    /\ \E n \in TreeNodes(Unwrap(wire.defs)["a"]) : n.rxf = Some("b")
    /\ \E n \in TreeNodes(Unwrap(wire.defs)["b"]) : n.rxf = Some("a")

---------------------------------------------------------------------------
\* The errors the construction rules of the build phase assign to a wire tree.
BuildErrors(w) ==
    (IF HasInvalidForm(w) THEN { InvalidForm } ELSE {}) \cup AmbiguousErrors(w)

\* The pairs << wire node, Schema node >> at the same place of the two trees.
RECURSIVE NodePairs(_, _)
NodePairs(n, s) ==
    LET Below(wm, sm) ==
            UNION { NodePairs(wm[k], sm[k]) : k \in DOMAIN wm \cap DOMAIN sm }
    IN { << n, s >> }
       \cup Below(unwrap_or_default(n.defs), unwrap_or_default(s.defs))
       \cup CASE s.form.kind = "Elements" -> Below(n.elems, << s.form.schema >>)
              [] s.form.kind = "Values" -> Below(n.values, << s.form.schema >>)
              [] s.form.kind = "Properties" ->
                   Below(unwrap_or_default(n.props), s.form.required)
                   \cup Below(unwrap_or_default(n.opt_props), s.form.optional)
              [] s.form.kind = "Discriminator" ->
                   IF IsSome(n.discriminator)
                   THEN Below(Unwrap(n.discriminator).mapping, s.form.mapping)
                   ELSE {}
              [] OTHER -> {}

\* The two wire nodes are equal but for the presence of properties and
\* optionalProperties keys with empty maps, enum lists compared as sets.
RECURSIVE SameWire(_, _)
SameWire(w, o) ==
    LET SameMaps(m1, m2) ==
            /\ DOMAIN m1 = DOMAIN m2
            /\ \A k \in DOMAIN m1 : SameWire(m1[k], m2[k])
    IN /\ IsSome(w.defs) = IsSome(o.defs)
       /\ SameMaps(unwrap_or_default(w.defs), unwrap_or_default(o.defs))
       /\ w.additional_props = o.additional_props
       /\ w.rxf = o.rxf
       /\ w.typ = o.typ
       /\ IsSome(w.enm) = IsSome(o.enm)
       /\ IsSome(w.enm) => Range(Unwrap(w.enm)) = Range(Unwrap(o.enm))
       /\ SameMaps(w.elems, o.elems)
       /\ SameMaps(unwrap_or_default(w.props), unwrap_or_default(o.props))
       /\ SameMaps(unwrap_or_default(w.opt_props), unwrap_or_default(o.opt_props))
       /\ SameMaps(w.values, o.values)
       /\ IsSome(w.discriminator) = IsSome(o.discriminator)
       /\ IsSome(w.discriminator) =>
            /\ Unwrap(w.discriminator).tag = Unwrap(o.discriminator).tag
            /\ SameMaps(Unwrap(w.discriminator).mapping, Unwrap(o.discriminator).mapping)
       /\ w.extra = o.extra

\* C4: into_serde(from_serde(w)) equals an accepted w but for the presence of
\* properties / optionalProperties keys with empty maps, enum lists compared
\* as sets.
C4_RoundTrip == pc = "encoded" => SameWire(wire, Unwrap(out))

\* C5 (as amended): every Discriminator mapping entry of an accepted schema
\* is in Properties form and declares the tag neither as required nor as
\* optional; a tree with a mapping entry that is not in Properties form, or
\* that declares the tag, is rejected with the error of a build rule the
\* tree breaks: InvalidForm resp. AmbiguousProperty naming the tag when it
\* breaks no other.
C5_DiscriminatorBranches ==
    /\ Accepted =>
         \A s \in AllSchemas(Root) :
             s.form.kind = "Discriminator" =>
                 \A b \in Range(s.form.mapping) :
                     /\ b.form.kind = "Properties"
                     /\ ~contains_key(b.form.required, s.form.tag)
                     /\ ~contains_key(b.form.optional, s.form.tag)
    /\ (Returned /\ \E n \in AllNodes(wire) :
                       NonPropertiesBranches(n) # {} \/ TagBranches(n) # {}) =>
         (Rejected /\ Error \in BuildErrors(wire))

\* C5 as stated: such an entry always yields InvalidForm, resp.
\* AmbiguousProperty naming the tag.
C5_AlwaysThatError ==
    Returned =>
        \A n \in AllNodes(wire) :
            /\ NonPropertiesBranches(n) # {} => (Rejected /\ Error = InvalidForm)
            /\ TagBranches(n) # {} =>
                 (Rejected /\ Error = AmbiguousProperty(Unwrap(n.discriminator).tag))

\* The one mapping entry is a ref to a definition in Properties form, and the
\* root is rejected as InvalidForm.
C5_Witness ==
    /\ pc = "failed"
    /\ IsSome(wire.discriminator)
    /\ IsSome(wire.defs)
    /\ \E c \in Range(Unwrap(wire.discriminator).mapping) :
         /\ c.rxf = Some("a")
         /\ contains_key(Unwrap(wire.defs), "a")
         /\ GroupsOf(Unwrap(wire.defs)["a"]) = { "Properties" }
    /\ BuildErrors(wire) = { InvalidForm }
    /\ Error = InvalidForm

\* C6 (as amended): required and optional of every Properties form of an
\* accepted schema have disjoint key sets, required holding the properties
\* entries and optional the optionalProperties entries; a tree with a node
\* whose properties and optionalProperties share a name is rejected with the
\* error of a build rule the tree breaks: AmbiguousProperty naming a shared
\* name when it breaks no other.
C6_DisjointProperties ==
    /\ Accepted =>
         \A p \in NodePairs(wire, Root) :
             LET n == p[1]
                 s == p[2]
             IN /\ (IsSome(n.props) \/ IsSome(n.opt_props)) =>
                       s.form.kind = "Properties"
                /\ s.form.kind = "Properties" =>
                     /\ DOMAIN s.form.required \cap DOMAIN s.form.optional = {}
                     /\ DOMAIN s.form.required = DOMAIN unwrap_or_default(n.props)
                     /\ DOMAIN s.form.optional = DOMAIN unwrap_or_default(n.opt_props)
    /\ (Returned /\ \E n \in AllNodes(wire) : SharedNames(n) # {}) =>
         (Rejected /\ Error \in BuildErrors(wire))
    /\ (/\ Returned
        /\ \E n \in AllNodes(wire) : SharedNames(n) # {}
        /\ ~HasInvalidForm(wire)
        /\ \A n \in AllNodes(wire) : TagBranches(n) = {}) =>
         \E n \in AllNodes(wire) :
             \E name \in SharedNames(n) : Error = AmbiguousProperty(name)

\* C6 as stated: a shared name always yields AmbiguousProperty naming it.
C6_AlwaysAmbiguous ==
    (Returned /\ \E n \in AllNodes(wire) : SharedNames(n) # {}) =>
        /\ Rejected
        /\ \E n \in AllNodes(wire) :
               \E name \in SharedNames(n) : Error = AmbiguousProperty(name)

\* The root declares a as required and as optional, breaks no other rule and
\* is rejected with AmbiguousProperty(a).
C6_Witness ==
    /\ pc = "failed"
    /\ SharedNames(wire) = { "a" }
    /\ BuildErrors(wire) = { AmbiguousProperty("a") }
    /\ Error = AmbiguousProperty("a")

\* C7 (as amended): a tree with a node whose enum list is empty or holds a
\* string twice is rejected, with InvalidForm or with the AmbiguousProperty
\* of a shared property name or tag collision of the tree; the Enum form of
\* an accepted node holds exactly the set of the listed strings and is never
\* empty.
C7_EnumValues ==
    /\ (Returned /\ \E n \in AllNodes(wire) : BadEnum(n)) =>
         (Rejected /\ Error \in { InvalidForm } \cup AmbiguousErrors(wire))
    /\ Accepted =>
         /\ \A p \in NodePairs(wire, Root) :
                IsSome(p[1].enm) => p[2].form = FormEnum(Range(Unwrap(p[1].enm)))
         /\ \A s \in AllSchemas(Root) : s.form.kind = "Enum" => s.form.vals # {}

\* C7 as stated: an empty or repeating enum list always yields InvalidForm.
C7_AlwaysInvalidForm ==
    (Returned /\ \E n \in AllNodes(wire) : BadEnum(n)) =>
        (Rejected /\ Error = InvalidForm)

\* The root's enum list holds a string twice and the root is rejected.
C7_Witness ==
    /\ pc = "failed"
    /\ GroupsOf(wire) = { "Enum" }
    /\ Len(Unwrap(wire.enm)) = 2
    /\ BadEnum(wire)
    /\ Error = InvalidForm

\* C8: the schema from_serde builds and returns always carries a
\* definitions table, empty when the wire root has no definitions key, so
\* the unwrap of the table cannot fail; no definition and no nested
\* sub-schema carries one; a wire tree with a definitions key on a nested
\* node, even an empty one, is rejected.
C8_RootOnlyDefinitions ==
    /\ (IsSome(built) /\ Unwrap(built).ok) => is_root(Unwrap(built).val)
    /\ Accepted =>
         /\ is_root(Root)
         /\ DOMAIN Unwrap(Root.defs) = DOMAIN unwrap_or_default(wire.defs)
         /\ \A s \in NestedSchemas(Root) : ~is_root(s)
    /\ (Returned /\ \E n \in NestedNodes(wire) : IsSome(n.defs)) => Rejected

\* A nested node with an empty definitions table, no other rule broken, and
\* the root is rejected.
C8_Witness ==
    /\ pc = "failed"
    /\ \E n \in NestedNodes(wire) : n.defs = Some(EmptyMap)
    /\ \A n \in AllNodes(wire) : ~InvalidFormAt(n)
    /\ AmbiguousErrors(wire) = {}
    /\ DanglingRefs(wire) = {}

\* C9: from_serde returns a schema if and only if no node of the wire tree,
\* the root, every definition and every sub-schema, breaks a construction
\* rule; otherwise it returns an error and the run never holds a schema.
C9_AllOrNothing ==
    Returned =>
        /\ Accepted <=> (BuildErrors(wire) = {} /\ DanglingRefs(wire) = {})
        /\ Rejected => (pc = "failed" /\ out = None)

\* The only broken rule is inside a definition that no ref names.
C9_Witness ==
    /\ pc = "failed"
    /\ \A n \in AllNodes(wire) : ~IsSome(n.rxf)
    /\ BuildErrors([wire EXCEPT !.defs = None]) = {}
    /\ BuildErrors(wire) # {}

---------------------------------------------------------------------------
\* C10: validate terminates for every well-formed root schema, cyclic ones
\* included, every instance and every Config; no call of the evaluator lies
\* below more than max_depth Ref expansions; a run in which following a Ref
\* would exceed max_depth ends with the depth error and returns no list of
\* validation errors.
C10_ValidateTerminates ==
    /\ [](\A k \in DOMAIN stack : stack[k].depth <= vconfig.max_depth)
    /\ [](vpc = "aborted" => (errors = <<>> /\ stack = <<>>))
    /\ []((vpc = "running" /\ stack # <<>> /\ DepthOverflow(vconfig, Head(stack)))
            => <>(vpc = "aborted"))
    /\ <>(vpc \in { "returned", "aborted" })

\* A run over a cyclic schema that followed max_depth > 0 Refs and aborted.
C10_Witness ==
    /\ vpc = "aborted"
    /\ vconfig.max_depth > 0
    /\ vschema.form.kind = "Ref"
    /\ Unwrap(vschema.defs)["a"].form.kind = "Elements"

---------------------------------------------------------------------------
\* C11: a wire tree whose only broken rule is a definitions key on a nested
\* node is rejected with an error kind of its own, distinct from
\* InvalidForm, AmbiguousProperty and NoSuchDefinition.
C11_DefinitionsOnNonRootKind ==
    (/\ Returned
     /\ \E n \in NestedNodes(wire) : IsSome(n.defs)
     /\ \A n \in AllNodes(wire) : ~InvalidFormAt(n)
     /\ AmbiguousErrors(wire) = {}
     /\ DanglingRefs(wire) = {}) =>
        /\ Rejected
        /\ Error.kind \notin { "InvalidForm", "AmbiguousProperty", "NoSuchDefinition" }

---------------------------------------------------------------------------
\* C12: into_serde encodes a Properties form with the properties key, even
\* for an empty map, exactly when has_required is true or the required map
\* is non-empty, and with the optionalProperties key exactly when
\* has_required is false or the optional map is non-empty; so at least one
\* of the two keys is emitted, and converting the output again succeeds and
\* yields a Properties form at that node, never Empty.
C12_PropertiesKeys ==
    /\ pc \in { "encoded", "reconverted" } =>
         \A p \in NodePairs(Unwrap(out), Root) :
             LET o == p[1]
                 f == p[2].form
             IN f.kind = "Properties" =>
                  /\ IsSome(o.props) <=> (f.has_required \/ DOMAIN f.required # {})
                  /\ IsSome(o.opt_props) <=> (~f.has_required \/ DOMAIN f.optional # {})
                  /\ IsSome(o.props) \/ IsSome(o.opt_props)
                  /\ IsSome(o.props) => DOMAIN Unwrap(o.props) = DOMAIN f.required
                  /\ IsSome(o.opt_props) => DOMAIN Unwrap(o.opt_props) = DOMAIN f.optional
                  /\ GroupsOf(o) = { "Properties" }
    /\ pc = "reconverted" =>
         /\ Unwrap(again).ok
         /\ \A q \in NodePairs(Unwrap(out), Unwrap(again).val) :
                (IsSome(q[1].props) \/ IsSome(q[1].opt_props)) =>
                    q[2].form.kind = "Properties"
         /\ \A p \in NodePairs(Unwrap(out), Root) :
                p[2].form.kind = "Properties" =>
                    \E q \in NodePairs(Unwrap(out), Unwrap(again).val) :
                        q[1] = p[1] /\ q[2].form.kind = "Properties"

\* A form with has_required false and a required property was encoded with
\* both keys, the optional one empty, and converted again.
C12_Witness ==
    /\ pc = "reconverted"
    /\ Root.form.kind = "Properties"
    /\ ~Root.form.has_required
    /\ DOMAIN Root.form.required = { "a" }
    /\ DOMAIN Root.form.optional = {}
    /\ IsSome(Unwrap(out).props)
    /\ Unwrap(out).opt_props = Some(EmptyMap)
    /\ Unwrap(again).val.form.kind = "Properties"

---------------------------------------------------------------------------
\* C13 (as amended): from_serde maps each of the eleven type names to a Type
\* variant of its own, and into_serde maps the variant back to the same
\* name, so the type string of every node of an accepted tree is the same
\* in the output of into_serde; a tree with any other type string is
\* rejected, with InvalidForm or with the AmbiguousProperty of a shared
\* property name or tag collision of the tree.
C13_TypeNames ==
    /\ \A t1 \in TypeNames : \A t2 \in TypeNames :
           t1 # t2 => TypeFromName(t1) \cap TypeFromName(t2) = {}
    /\ Accepted =>
         \A p \in NodePairs(wire, Root) :
             IsSome(p[1].typ) =>
                 /\ Unwrap(p[1].typ) \in TypeNames
                 /\ p[2].form.kind = "Type"
                 /\ p[2].form.typ \in Type
                 /\ pc \in { "encoded", "reconverted" } =>
                      \A q \in NodePairs(Unwrap(out), Root) :
                          q[2] = p[2] => q[1].typ = p[1].typ
    /\ (Returned /\ \E n \in AllNodes(wire) : BadType(n)) =>
         (Rejected /\ Error \in { InvalidForm } \cup AmbiguousErrors(wire))

\* C13 as stated: any other type string always yields InvalidForm.
C13_AlwaysInvalidForm ==
    (Returned /\ \E n \in AllNodes(wire) : BadType(n)) =>
        (Rejected /\ Error = InvalidForm)

\* A nested uint8 node came back from into_serde as uint8.
C13_Witness ==
    /\ pc = "encoded"
    /\ IsSome(wire.elems)
    /\ Unwrap(wire.elems).typ = Some("uint8")
    /\ Root.form.schema.form = FormType("Uint8")
    /\ Unwrap(Unwrap(out).elems).typ = Some("uint8")

---------------------------------------------------------------------------
\* The wire tree n with the extra map of every node emptied.
RECURSIVE StripExtra(_)
StripExtra(n) ==
    LET One(o) == IF IsSome(o) THEN Some(StripExtra(Unwrap(o))) ELSE None
        Each(m) == [k \in DOMAIN m |-> StripExtra(m[k])]
        All(o) == IF IsSome(o) THEN Some(Each(Unwrap(o))) ELSE None
    IN [ defs |-> All(n.defs),
         additional_props |-> n.additional_props,
         rxf |-> n.rxf,
         typ |-> n.typ,
         enm |-> n.enm,
         elems |-> One(n.elems),
         props |-> All(n.props),
         opt_props |-> All(n.opt_props),
         values |-> One(n.values),
         discriminator |->
             IF IsSome(n.discriminator)
             THEN Some(SerdeDiscriminator(Unwrap(n.discriminator).tag,
                                          Each(Unwrap(n.discriminator).mapping)))
             ELSE None,
         extra |-> EmptyMap ]

\* The schema s with the extra map of every node emptied.
RECURSIVE ClearExtra(_)
ClearExtra(s) ==
    LET Each(m) == [k \in DOMAIN m |-> ClearExtra(m[k])]
        f == s.form
    IN Schema(IF IsSome(s.defs) THEN Some(Each(Unwrap(s.defs))) ELSE None,
              CASE f.kind \in { "Elements", "Values" } ->
                     [f EXCEPT !.schema = ClearExtra(f.schema)]
                [] f.kind = "Properties" ->
                     [f EXCEPT !.required = Each(f.required),
                               !.optional = Each(f.optional)]
                [] f.kind = "Discriminator" -> [f EXCEPT !.mapping = Each(f.mapping)]
                [] OTHER -> f,
              EmptyMap)

ClearExtraOf(r) == IF r.ok THEN Ok(ClearExtra(r.val)) ELSE r

\* C14: every node of an accepted tree keeps the extra map of its wire node,
\* into_serde emits that map again at every node, and the results from_serde
\* can return for a tree are, extra maps aside, those it can return for the
\* same tree without any extra field: extra decides neither a form, nor the
\* definitions, nor acceptance, nor the error.
C14_ExtraCarried ==
    /\ Accepted => \A p \in NodePairs(wire, Root) : p[2].extra = p[1].extra
    /\ pc \in { "encoded", "reconverted" } =>
         /\ \A q \in NodePairs(Unwrap(out), Root) : q[1].extra = q[2].extra
         /\ \A p \in NodePairs(wire, Root) :
                \E q \in NodePairs(Unwrap(out), Root) :
                    q[2] = p[2] /\ q[1].extra = p[1].extra
    /\ Returned =>
         /\ ClearExtraOf(Unwrap(result)) \in from_serde(StripExtra(wire))
         /\ { ClearExtraOf(r) : r \in from_serde(wire) } = from_serde(StripExtra(wire))

\* A tree with an extra field on a nested node, kept by the schema and
\* emitted again by into_serde.
C14_Witness ==
    /\ pc = "encoded"
    /\ wire.extra = EmptyMap
    /\ IsSome(wire.elems)
    /\ Unwrap(wire.elems).extra = Foo
    /\ Root.form.schema.extra = Foo
    /\ Unwrap(Unwrap(out).elems).extra = Foo

---------------------------------------------------------------------------
\* C15: in every Properties form from_serde builds, allow_additional is true
\* exactly when the wire node has additionalProperties with the value true,
\* and has_required is true exactly when the wire node has the properties
\* key, whatever optionalProperties is.
C15_PropertiesFlags ==
    Accepted =>
        \A p \in NodePairs(wire, Root) :
            LET n == p[1]
                f == p[2].form
            IN f.kind = "Properties" =>
                 /\ f.allow_additional \in BOOLEAN
                 /\ f.allow_additional <=> (n.additional_props = Some(TRUE))
                 /\ f.has_required \in BOOLEAN
                 /\ f.has_required <=> IsSome(n.props)

\* additionalProperties false on a node with an empty properties map and no
\* optionalProperties: allow_additional false, has_required true.
C15_Witness ==
    /\ pc = "ok"
    /\ wire.additional_props = Some(FALSE)
    /\ wire.props = Some(EmptyMap)
    /\ wire.opt_props = None
    /\ Root.form = FormProperties(EmptyMap, EmptyMap, TRUE, FALSE)

---------------------------------------------------------------------------
\* C16: from_serde checks no ref before the whole tree, every definition
\* and the root form, is built without error.  A tree that breaks a build
\* rule is rejected with the error of a build rule, InvalidForm or
\* AmbiguousProperty, also when it holds a ref to a missing definition;
\* NoSuchDefinition is returned only for a tree that was built.
C16_BuildBeforeRefs ==
    /\ pc = "built" => (Unwrap(built).ok /\ result = None)
    /\ (pc = "failed" /\ ~Unwrap(built).ok) =>
         (result = built /\ Error.kind \in { "InvalidForm", "AmbiguousProperty" })
    /\ (Returned /\ BuildErrors(wire) # {}) =>
         /\ Rejected
         /\ ~Unwrap(built).ok
         /\ Error \in BuildErrors(wire)
         /\ Error.kind # "NoSuchDefinition"
    /\ (Rejected /\ Error.kind = "NoSuchDefinition") =>
         /\ Unwrap(built).ok
         /\ BuildErrors(wire) = {}
         /\ Error.definition \in DanglingRefs(wire)

\* The root is a ref to a missing definition and its one definition has two
\* keyword groups: the error is InvalidForm.
C16_Witness ==
    /\ pc = "failed"
    /\ wire.rxf = Some("b")
    /\ DOMAIN unwrap_or_default(wire.defs) = { "a" }
    /\ GroupsOf(wire) = { "Ref" }
    /\ TwoGroups(Unwrap(wire.defs)["a"])
    /\ DanglingRefs(wire) = { "b" }
    /\ Error = InvalidForm

---------------------------------------------------------------------------
\* The keyword groups in the order _from_serde examines them.
GroupOrder ==
    << "Ref", "Type", "Enum", "Elements", "Properties", "Values", "Discriminator" >>

FirstGroup(n) ==
    LET Rank(g) == CHOOSE i \in DOMAIN GroupOrder : GroupOrder[i] = g
    IN CHOOSE g \in GroupsOf(n) : \A h \in GroupsOf(n) : Rank(g) <= Rank(h)

\* The node n with the keywords of group g alone.
OnlyGroup(n, g) ==
    CASE g = "Ref" -> [SerdeDefault EXCEPT !.rxf = n.rxf]
      [] g = "Type" -> [SerdeDefault EXCEPT !.typ = n.typ]
      [] g = "Enum" -> [SerdeDefault EXCEPT !.enm = n.enm]
      [] g = "Elements" -> [SerdeDefault EXCEPT !.elems = n.elems]
      [] g = "Properties" ->
           [SerdeDefault EXCEPT !.props = n.props, !.opt_props = n.opt_props]
      [] g = "Values" -> [SerdeDefault EXCEPT !.values = n.values]
      [] g = "Discriminator" -> [SerdeDefault EXCEPT !.discriminator = n.discriminator]

\* The build errors of the rules broken inside the definitions of the root w.
DefinitionErrors(w) ==
    LET defs == unwrap_or_default(w.defs)
        inside == UNION { AllNodes(defs[k]) : k \in DOMAIN defs }
    IN (IF \E n \in inside : InvalidFormAt(n) \/ IsSome(n.defs)
        THEN { InvalidForm } ELSE {})
       \cup UNION { AmbiguousAt(n) : n \in inside }

\* The errors a node with two keyword groups can yield: InvalidForm, or the
\* AmbiguousProperty of a rule broken inside its first group.
TwoGroupErrors(n) ==
    { InvalidForm } \cup AmbiguousErrors(OnlyGroup(n, FirstGroup(n)))

\* C17: _from_serde converts the definitions of the root before its form,
\* and examines the keyword groups of a node in the order ref, type, enum,
\* elements, properties/optionalProperties, values, discriminator, stopping
\* at the first violation.  A tree that breaks a rule inside a definition is
\* rejected with the error of a rule broken inside the definitions, whatever
\* the root form breaks.  A node with two groups yields InvalidForm when the
\* second group is met, before the content of that group is converted: its
\* error is InvalidForm or the AmbiguousProperty of a rule broken inside its
\* first group, never that of a rule broken inside a later group.
C17_ConversionOrder ==
    Returned =>
        /\ DefinitionErrors(wire) # {} =>
             (Rejected /\ Error \in DefinitionErrors(wire))
        /\ (DefinitionErrors(wire) = {} /\ TwoGroups(wire)) =>
             (Rejected /\ Error \in TwoGroupErrors(wire))
        /\ \A n \in NestedNodes(wire) :
               TwoGroups(n) =>
                   \A r \in _from_serde(n, FALSE) :
                       ~r.ok /\ r.err \in TwoGroupErrors(n)

\* The root has a type and, as its second group, properties and
\* optionalProperties that share the name a: the error is InvalidForm.
C17_Witness ==
    /\ pc = "failed"
    /\ GroupsOf(wire) = { "Type", "Properties" }
    /\ ~BadType(wire)
    /\ wire.defs = None
    /\ AmbiguousErrors(wire) = { AmbiguousProperty("a") }
    /\ TwoGroupErrors(wire) = { InvalidForm }
    /\ Error = InvalidForm

---------------------------------------------------------------------------
\* The wire tree n without the additionalProperties of the nodes that have
\* neither properties nor optionalProperties.
RECURSIVE StripAdditional(_)
StripAdditional(n) ==
    LET One(o) == IF IsSome(o) THEN Some(StripAdditional(Unwrap(o))) ELSE None
        Each(m) == [k \in DOMAIN m |-> StripAdditional(m[k])]
        All(o) == IF IsSome(o) THEN Some(Each(Unwrap(o))) ELSE None
    IN [ defs |-> All(n.defs),
         additional_props |->
             IF IsSome(n.props) \/ IsSome(n.opt_props)
             THEN n.additional_props ELSE None,
         rxf |-> n.rxf,
         typ |-> n.typ,
         enm |-> n.enm,
         elems |-> One(n.elems),
         props |-> All(n.props),
         opt_props |-> All(n.opt_props),
         values |-> One(n.values),
         discriminator |->
             IF IsSome(n.discriminator)
             THEN Some(SerdeDiscriminator(Unwrap(n.discriminator).tag,
                                          Each(Unwrap(n.discriminator).mapping)))
             ELSE None,
         extra |-> n.extra ]

\* The node has additionalProperties and neither properties nor
\* optionalProperties.
LoneAdditional(n) ==
    IsSome(n.additional_props) /\ ~IsSome(n.props) /\ ~IsSome(n.opt_props)

\* C18: a wire node with additionalProperties and neither properties nor
\* optionalProperties is converted as if additionalProperties were absent:
\* from_serde returns for the tree what it returns for the tree without
\* these keys, the node gets the form of its one other group, Empty when it
\* has none, and the schema of the node stores the flag nowhere.
C18_AdditionalNotAGroup ==
    /\ Returned =>
         /\ Unwrap(result) \in from_serde(StripAdditional(wire))
         /\ from_serde(wire) = from_serde(StripAdditional(wire))
    /\ Accepted =>
         \A p \in NodePairs(wire, Root) :
             LoneAdditional(p[1]) =>
                 /\ p[2].form.kind = KindOf(p[1])
                 /\ p[2].form.kind # "Properties"
                 /\ DOMAIN p[2] = { "defs", "form", "extra" }
                 /\ "allow_additional" \notin DOMAIN p[2].form

\* A ref with additionalProperties true to a definition of the root.
C18_Witness ==
    /\ pc = "ok"
    /\ wire.rxf = Some("a")
    /\ wire.additional_props = Some(TRUE)
    /\ LoneAdditional(wire)
    /\ Root.form = FormRef("a")

---------------------------------------------------------------------------
\* The schema s with every allow_additional flag cleared.
RECURSIVE ForgetAllowAdditional(_)
ForgetAllowAdditional(s) ==
    LET Each(m) == [k \in DOMAIN m |-> ForgetAllowAdditional(m[k])]
        f == s.form
    IN Schema(IF IsSome(s.defs) THEN Some(Each(Unwrap(s.defs))) ELSE None,
              CASE f.kind \in { "Elements", "Values" } ->
                     [f EXCEPT !.schema = ForgetAllowAdditional(f.schema)]
                [] f.kind = "Properties" ->
                     [f EXCEPT !.required = Each(f.required),
                               !.optional = Each(f.optional),
                               !.allow_additional = FALSE]
                [] f.kind = "Discriminator" -> [f EXCEPT !.mapping = Each(f.mapping)]
                [] OTHER -> f,
              s.extra)

\* The wire tree n with every enum list replaced by the set of its strings.
RECURSIVE EnumAsSet(_)
EnumAsSet(n) ==
    LET One(o) == IF IsSome(o) THEN Some(EnumAsSet(Unwrap(o))) ELSE None
        Each(m) == [k \in DOMAIN m |-> EnumAsSet(m[k])]
        All(o) == IF IsSome(o) THEN Some(Each(Unwrap(o))) ELSE None
    IN [ defs |-> All(n.defs),
         additional_props |-> n.additional_props,
         rxf |-> n.rxf,
         typ |-> n.typ,
         enm |-> IF IsSome(n.enm) THEN Some(Range(Unwrap(n.enm))) ELSE None,
         elems |-> One(n.elems),
         props |-> All(n.props),
         opt_props |-> All(n.opt_props),
         values |-> One(n.values),
         discriminator |->
             IF IsSome(n.discriminator)
             THEN Some(SerdeDiscriminator(Unwrap(n.discriminator).tag,
                                          Each(Unwrap(n.discriminator).mapping)))
             ELSE None,
         extra |-> n.extra ]

\* C19: for every schema s returned by from_serde, from_serde(into_serde(s))
\* succeeds and returns s with its allow_additional flags cleared, equal to
\* s in definitions, forms, types, enum sets, property names, has_required
\* and extra at every node; and into_serde of that schema is into_serde(s)
\* again, enum lists compared as sets: N(N(w)) = N(w).
C19_NormalizationStable ==
    pc = "reconverted" =>
        /\ Unwrap(again).ok
        /\ Unwrap(again).val = ForgetAllowAdditional(Root)
        /\ \A r \in from_serde(Unwrap(out)) :
               r.ok /\ r.val = ForgetAllowAdditional(Root)
        /\ \A o2 \in into_serde(Unwrap(again).val) :
               EnumAsSet(o2) = EnumAsSet(Unwrap(out))

\* A root with properties and additionalProperties true: converted again,
\* the schema keeps has_required and differs in allow_additional.
C19_Witness ==
    /\ pc = "reconverted"
    /\ Root.form.kind = "Properties"
    /\ Root.form.allow_additional
    /\ Root.form.has_required
    /\ Unwrap(again).ok
    /\ Unwrap(again).val # Root
    /\ ~Unwrap(again).val.form.allow_additional
    /\ Unwrap(again).val.form.has_required

===========================================================================
